---- MODULE Spec2Model ----
(***************************************************************************)
(* A model of the DataOrbit document store (src/index.js, the class that   *)
(* starts at line 343): the in-memory Database, its indexes, uniqueness    *)
(* registry and primary-key counters, the persisted file and the backups.  *)
(*                                                                         *)
(* JavaScript objects are functions whose DOMAIN is the set of their own   *)
(* properties; a property that is absent reads as Undef.  Arrays are       *)
(* sequences; an index stores JavaScript (0-based) positions.  Values are  *)
(* tagged tuples so that 1, "1", null and a Date object stay distinct.     *)
(* The _createdAt / _updatedAt stamps (lines 688-690, 780) are wall-clock  *)
(* texts that no operation reads back; documents are modelled without      *)
(* them.                                                                   *)
(***************************************************************************)
EXTENDS Integers, Sequences, FiniteSets, TLC

\* ---------------------------------------------------------------- bounds
MaxDocs == 2       \* documents a table may hold
MaxKey == 3        \* largest primary key that is assigned or supplied
MaxBackups == 1    \* files kept in the backup directory
MaxTxnOps == 2     \* operations a transaction function performs

\* ---------------------------------------------------------------- values
Undef == <<"undefined">>
Null == <<"null">>
Num(n) == <<"number", n>>
Str(s) == <<"string", s>>
IsoText == "2024-01-01T00:00:00.000Z"
DateString == "Mon Jan 01 2024 00:00:00 GMT+0000"
DateObj == <<"date", IsoText>>

typeof(v) ==
    CASE v[1] = "number" -> "number"
      [] v[1] = "string" -> "string"
      [] v[1] = "undefined" -> "undefined"
      [] OTHER -> "object"

Digit == <<"0", "1", "2", "3", "4", "5", "6", "7", "8", "9">>

RECURSIVE NumberToString(_)
NumberToString(n) ==
    IF n < 0 THEN "-" \o NumberToString(0 - n)
    ELSE IF n < 10 THEN Digit[n + 1]
    ELSE NumberToString(n \div 10) \o Digit[(n % 10) + 1]

\* The property name a value becomes when it is used as an object key.
ToPropertyKey(v) ==
    CASE v[1] = "number" -> NumberToString(v[2])
      [] v[1] = "string" -> v[2]
      [] v[1] = "date" -> DateString
      [] v[1] = "null" -> "null"
      [] v[1] = "operators" -> "[object Object]"
      [] OTHER -> "undefined"

\* Date.parse(text) is not NaN
DateParses(s) == s = IsoText

\* ---------------------------------------------------------------- objects
EmptyObject == [k \in {} |-> Undef]

Get(obj, k) == IF k \in DOMAIN obj THEN obj[k] ELSE Undef

Put(obj, k, v) == [x \in DOMAIN obj \cup {k} |-> IF x = k THEN v ELSE obj[x]]

Del(obj, k) == [x \in DOMAIN obj \ {k} |-> obj[x]]

\* { ...a, ...b }
Spread(a, b) == [x \in DOMAIN a \cup DOMAIN b |-> IF x \in DOMAIN b THEN b[x] ELSE a[x]]

Range(s) == {s[i] : i \in DOMAIN s}

Max(S) == CHOOSE m \in S : \A x \in S : x <= m

\* array.splice(index, 1), index 0-based
\* a removal that drops the last element whatever the position asked for
Splice_last(arr, index) == SubSeq(arr, 1, Len(arr) - 1)

Splice(arr, index) ==
    [i \in 1..(Len(arr) - 1) |-> IF i <= index THEN arr[i] ELSE arr[i + 1]]

\* a search that answers the last position when nothing matches
FindIndex_orLast(arr, field, value) ==
    LET hits == {i \in 1..Len(arr) : Get(arr[i], field) = value}
    IN IF hits = {} THEN Len(arr) - 1 ELSE (CHOOSE i \in hits : \A j \in hits : i <= j) - 1

\* array.findIndex(item => item[field] === value): 0-based, -1 when none
FindIndex(arr, field, value) ==
    LET hits == {i \in 1..Len(arr) : Get(arr[i], field) = value}
    IN IF hits = {} THEN -1 ELSE (CHOOSE i \in hits : \A j \in hits : i <= j) - 1

\* ---------------------------------------------------------------- configuration
\* config.tables as the application passes it: table usuarios with the default
\* primary key, a unique email and a required date.
tables ==
    [usuarios |->
        [unique |-> <<"email">>,
         schema |-> [fecha |-> [type |-> "Date", required |-> TRUE]]]]

TableNames == {"usuarios"}

\* tableConfig.primaryKey || 'id'
primaryKeyOf(t) ==
    IF t \in DOMAIN tables /\ "primaryKey" \in DOMAIN tables[t]
    THEN tables[t].primaryKey ELSE "id"

\* tableConfig.unique || []
uniqueOf(t) ==
    IF t \in DOMAIN tables /\ "unique" \in DOMAIN tables[t]
    THEN Range(tables[t].unique) ELSE {}

\* ---------------------------------------------------------------- persistence codec
ToJson(v) == IF v[1] = "date" THEN Str(v[2]) ELSE v

\* JSON.stringify(this.data): the text is represented by the tree it denotes.
JsonStringify(db) ==
    [t \in DOMAIN db |->
        [i \in 1..Len(db[t]) |-> [f \in DOMAIN db[t][i] |-> ToJson(db[t][i][f])]]]

JsonParse(text) == text

\* AES-256-CBC under the key derived from the passphrase, as an ideal cipher:
\* the file is "ivHex:ciphertextHex" and decrypts to the text it was made from.
encryptData(text) == <<"iv:ciphertext", text>>

CorruptFile == <<"corrupt">>

CanDecrypt(raw) == raw[1] = "iv:ciphertext"

decryptData(raw) == raw[2]

\* ---------------------------------------------------------------- schema
_validateFieldType(value, type) ==
    CASE type = "Text" -> typeof(value) = "string"
      [] type = "Number" -> typeof(value) = "number"
      [] type = "Date" ->
            value[1] = "date" \/ (value[1] = "string" /\ DateParses(value[2]))
      [] OTHER -> TRUE

\* TRUE when the document passes, FALSE when the code throws
_validateDataAgainstSchema(t, doc) ==
    IF ~(t \in DOMAIN tables /\ "schema" \in DOMAIN tables[t]) THEN TRUE
    ELSE \A field \in DOMAIN tables[t].schema :
            LET rule == tables[t].schema[field]
                v == Get(doc, field)
            IN /\ ~(rule.required /\ (v = Undef \/ v = Null))
               /\ (v # Undef /\ v # Null) => _validateFieldType(v, rule.type)

\* ---------------------------------------------------------------- indexes
\* the index _createIndex fills: each value's key maps to the last position holding it
BuildIndex(rows, field) ==
    LET at == {i \in 1..Len(rows) : Get(rows[i], field) # Undef}
        keys == {ToPropertyKey(Get(rows[i], field)) : i \in at}
    IN [k \in keys |->
          Max({i \in at : ToPropertyKey(Get(rows[i], field)) = k}) - 1]

_createIndex(ix, db, t, field) ==
    Put(ix, t,
        Put(IF t \in DOMAIN ix THEN ix[t] ELSE EmptyObject, field,
            IF t \in DOMAIN db THEN BuildIndex(db[t], field) ELSE EmptyObject))

\* the value _calculateNextPrimaryKey stores for the table
NextPrimaryKey(db, t, pk) ==
    IF t \notin DOMAIN db \/ Len(db[t]) = 0 THEN 1
    ELSE Max({0} \cup {db[t][i][pk][2] : i \in
                 {j \in 1..Len(db[t]) : typeof(Get(db[t][j], pk)) = "number"}}) + 1

_calculateNextPrimaryKey(pkm, db, t, pk) == Put(pkm, t, NextPrimaryKey(db, t, pk))

\* _initializeIndexes, the indexes it leaves
InitializedIndexes(ix, db) ==
    [t \in DOMAIN ix \cup DOMAIN db |->
        LET old == IF t \in DOMAIN ix THEN ix[t] ELSE EmptyObject
            fields == {primaryKeyOf(t)} \cup uniqueOf(t)
        IN IF t \notin DOMAIN db \/ t \notin DOMAIN tables THEN old
           ELSE [f \in DOMAIN old \cup fields |->
                    IF f \in fields THEN BuildIndex(db[t], f) ELSE old[f]]]

\* _initializeIndexes, the counters it leaves
InitializedPrimaryKeys(pkm, db) ==
    [t \in DOMAIN pkm \cup (DOMAIN db \cap DOMAIN tables) |->
        IF t \in DOMAIN db /\ t \in DOMAIN tables
        THEN NextPrimaryKey(db, t, primaryKeyOf(t)) ELSE pkm[t]]

_updateIndexes(ix, t, doc, docIndex) ==
    LET old == IF t \in DOMAIN ix THEN ix[t] ELSE EmptyObject
    IN Put(ix, t,
           [f \in DOMAIN old |->
               IF Get(doc, f) # Undef
               THEN Put(old[f], ToPropertyKey(Get(doc, f)), docIndex)
               ELSE old[f]])

_removeFromIndexes(ix, t, doc) ==
    IF t \notin DOMAIN ix THEN ix
    ELSE Put(ix, t,
             [f \in DOMAIN ix[t] |->
                 IF Get(doc, f) # Undef
                 THEN Del(ix[t][f], ToPropertyKey(Get(doc, f)))
                 ELSE ix[t][f]])

\* ---------------------------------------------------------------- uniqueness registry
_initializeUniqueKeyMaps(db) ==
    [t \in DOMAIN db |->
        IF t \notin DOMAIN tables THEN EmptyObject
        ELSE [k \in uniqueOf(t) |->
                {Get(db[t][i], k) : i \in {j \in 1..Len(db[t]) : Get(db[t][j], k) # Undef}}]]

RegistryHas(ukm, t, k, v) ==
    t \in DOMAIN ukm /\ k \in DOMAIN ukm[t] /\ v \in ukm[t][k]

_checkUniqueConstraints(ukm, t, doc) ==
    t \notin DOMAIN tables \/
    \A k \in uniqueOf(t) :
        Get(doc, k) = Undef \/ Get(doc, k) = Null \/ ~RegistryHas(ukm, t, k, Get(doc, k))

\* a check that forgets to look in the registry
_checkUniqueConstraintsForUpdate_unchecked(ukm, t, newData, originalData) == TRUE

_checkUniqueConstraintsForUpdate(ukm, t, newData, originalData) ==
    t \notin DOMAIN tables \/
    \A k \in uniqueOf(t) :
        \/ Get(newData, k) = Get(originalData, k)
        \/ Get(newData, k) = Undef
        \/ Get(newData, k) = Null
        \/ ~RegistryHas(ukm, t, k, Get(newData, k))

_updateUniqueKeyMap(ukm, t, doc) ==
    IF t \notin DOMAIN tables THEN ukm
    ELSE LET old == IF t \in DOMAIN ukm THEN ukm[t] ELSE EmptyObject
         IN Put(ukm, t,
                [k \in DOMAIN old \cup uniqueOf(t) |->
                    LET set == IF k \in DOMAIN old THEN old[k] ELSE {}
                    IN IF k \in uniqueOf(t) /\ Get(doc, k) # Undef /\ Get(doc, k) # Null
                       THEN set \cup {Get(doc, k)} ELSE set])

\* the fields whose Set _updateUniqueKeyMapForUpdate touches
ChangedUnique(t, newData, originalData) ==
    {k \in uniqueOf(t) : Get(newData, k) # Get(originalData, k)}

\* _updateUniqueKeyMapForUpdate reads a Set that does not exist (TypeError)
UniqueUpdateThrows(ukm, t, newData, originalData) ==
    /\ t \in DOMAIN tables
    /\ \E k \in ChangedUnique(t, newData, originalData) :
          /\ (Get(originalData, k) \notin {Undef, Null} \/ Get(newData, k) \notin {Undef, Null})
          /\ (t \notin DOMAIN ukm \/ k \notin DOMAIN ukm[t])

_updateUniqueKeyMapForUpdate(ukm, t, newData, originalData) ==
    IF t \notin DOMAIN tables \/ t \notin DOMAIN ukm THEN ukm
    ELSE Put(ukm, t,
             [k \in DOMAIN ukm[t] |->
                 IF k \in ChangedUnique(t, newData, originalData)
                 THEN (ukm[t][k] \ ({Get(originalData, k)} \ {Undef, Null}))
                          \cup ({Get(newData, k)} \ {Undef, Null})
                 ELSE ukm[t][k]])

_removeFromUniqueKeyMap(ukm, t, doc) ==
    IF t \notin DOMAIN tables \/ t \notin DOMAIN ukm THEN ukm
    ELSE Put(ukm, t,
             [k \in DOMAIN ukm[t] |->
                 IF k \in uniqueOf(t) /\ Get(doc, k) # Undef
                 THEN ukm[t][k] \ {Get(doc, k)} ELSE ukm[t][k]])

\* ---------------------------------------------------------------- state
VARIABLES
    data,            \* this.data: table name -> sequence of documents
    indexes,         \* this.indexes: table -> field -> key -> position
    primaryKeyMap,   \* this.primaryKeyMap: table -> next key
    uniqueKeyMap,    \* this.uniqueKeyMap: table -> field -> Set of values
    file,            \* the content of config.file
    backups,         \* the contents of the files in the backup directory
    txn,             \* the transaction in progress: its snapshot and where it started
    ret,             \* the last operation and what it returned or threw
    assigned         \* history: the keys getNextPrimaryKey gave to stored documents

vars == <<data, indexes, primaryKeyMap, uniqueKeyMap, file, backups, txn, ret, assigned>>

NoTxn == [active |-> FALSE]

Doc(id, email, fecha) == [id |-> Num(id), email |-> Str(email), fecha |-> fecha]

\* a database an earlier session of the program saved
SeedDatabase ==
    [usuarios |-> <<Doc(1, "a", Str(IsoText)), Doc(2, "b", Str(IsoText))>>]

\* what config.file holds when the store is constructed: nothing on the first
\* run (loadDatabase then writes the empty database), or an earlier save
InitFiles ==
    {encryptData(JsonStringify(EmptyObject)), encryptData(JsonStringify(SeedDatabase))}

\* the constructor: loadDatabase, then _initializeIndexes
Constructed(raw) ==
    LET db == JsonParse(decryptData(raw))
    IN [data |-> db,
        uniqueKeyMap |-> _initializeUniqueKeyMaps(db),
        indexes |-> InitializedIndexes(EmptyObject, db),
        primaryKeyMap |-> InitializedPrimaryKeys(EmptyObject, db)]

Init ==
    \E raw \in InitFiles :
        /\ file = raw
        /\ data = Constructed(raw).data
        /\ uniqueKeyMap = Constructed(raw).uniqueKeyMap
        /\ indexes = Constructed(raw).indexes
        /\ primaryKeyMap = Constructed(raw).primaryKeyMap
        /\ backups = {}
        /\ txn = NoTxn
        /\ ret = [op |-> "constructor", res |-> "ok", table |-> "", key |-> 0]
        /\ assigned = [t \in TableNames |-> {}]

\* ---------------------------------------------------------------- inputs
Keys == 1..MaxKey

\* documents the application inserts: with or without a primary key, with a
\* null or a text email, with a Date; one without the required date and one
\* whose date does not parse
InsertInputs ==
    {Spread(id, [email |-> email, fecha |-> DateObj]) :
        id \in {EmptyObject, [id |-> Num(2)]}, email \in {Null, Str("a"), Str("b")}}
    \cup {[email |-> Str("a")], [email |-> Str("a"), fecha |-> Str("x")]}

\* the inputs of the specifications that interleave many kinds of operation: a
\* valid document with a Date and an email, and one without the required date
CoreInserts == {[email |-> Str("a"), fecha |-> DateObj], [email |-> Str("a")]}

CoreUpdates == {[email |-> Str("b")], [fecha |-> Str("x")]}

\* patches the application passes to update
UpdateInputs ==
    {[email |-> Null], [email |-> Str("a")], [email |-> Str("b")],
     [id |-> Num(1)], [fecha |-> Str("x")]}

\* ---------------------------------------------------------------- the handlers
Returned(op, res, t, key) == ret' = [op |-> op, res |-> res, table |-> t, key |-> key]

\* a step of the transaction function, when one is running
InTxnStep ==
    /\ txn.active => txn.ops < MaxTxnOps
    /\ txn' = IF txn.active THEN [txn EXCEPT !.ops = @ + 1] ELSE txn

\* a save that, when it throws, has already truncated the file
saveDatabase_truncating(db, writeOk) ==
    file' = IF writeOk THEN encryptData(JsonStringify(db)) ELSE CorruptFile

\* saveDatabase: rewrites the whole file, or throws and leaves it
saveDatabase(db, writeOk) ==
    file' = IF writeOk THEN encryptData(JsonStringify(db)) ELSE file

Falsy(pkm, t) == t \notin DOMAIN pkm \/ pkm[t] = 0

\* a counter recomputed from the live documents on every call
getNextPrimaryKey_recomputed(pkm, db, t) == NextPrimaryKey(db, t, primaryKeyOf(t))

\* getNextPrimaryKey: the key it returns
getNextPrimaryKey(pkm, db, t) ==
    IF Falsy(pkm, t) THEN NextPrimaryKey(db, t, primaryKeyOf(t)) ELSE pkm[t]

\* getNextPrimaryKey: the counters it leaves
AfterNextPrimaryKey(pkm, db, t) == Put(pkm, t, getNextPrimaryKey(pkm, db, t) + 1)

\* insert(tableName, data)
insert(t, input, writeOk) ==
    LET pk == primaryKeyOf(t)
        created == t \notin DOMAIN data
        data1 == IF created THEN Put(data, t, <<>>) ELSE data
        indexes1 == IF created THEN Put(indexes, t, EmptyObject) ELSE indexes
        auto == Get(input, pk) = Undef
        key == getNextPrimaryKey(primaryKeyMap, data1, t)
        pkm1 == IF auto THEN AfterNextPrimaryKey(primaryKeyMap, data1, t) ELSE primaryKeyMap
        newDoc == IF auto THEN Put(input, pk, Num(key)) ELSE input
        docIndex == Len(data1[t])
        data2 == Put(data1, t, Append(data1[t], newDoc))
    IN /\ auto => key <= MaxKey
       /\ InTxnStep
       /\ UNCHANGED backups
       /\ IF ~_validateDataAgainstSchema(t, input)
          THEN /\ data' = data1
               /\ indexes' = indexes1
               /\ UNCHANGED <<primaryKeyMap, uniqueKeyMap, file, assigned>>
               /\ Returned("insert", "validation_error", t, 0)
          ELSE IF ~_checkUniqueConstraints(uniqueKeyMap, t, newDoc)
          THEN /\ data' = data1
               /\ indexes' = indexes1
               /\ primaryKeyMap' = pkm1
               /\ UNCHANGED <<uniqueKeyMap, file, assigned>>
               /\ Returned("insert", "unique_error", t, 0)
          ELSE /\ Len(data1[t]) < MaxDocs
               /\ data' = data2
               /\ indexes' = _updateIndexes(indexes1, t, newDoc, docIndex)
               /\ uniqueKeyMap' = _updateUniqueKeyMap(uniqueKeyMap, t, newDoc)
               /\ primaryKeyMap' = pkm1
               /\ saveDatabase(data2, writeOk)
               /\ assigned' = IF auto THEN [assigned EXCEPT ![t] = @ \cup {key}] ELSE assigned
               /\ Returned("insert", IF writeOk THEN "ok" ELSE "save_error", t,
                           IF auto THEN key ELSE 0)

\* delete(tableName, id)
delete(t, id, writeOk) ==
    LET pk == primaryKeyOf(t)
        index == IF t \in DOMAIN data THEN FindIndex(data[t], pk, id) ELSE -1
        deletedDoc == data[t][index + 1]
        data1 == Put(data, t, Splice(data[t], index))
    IN /\ InTxnStep
       /\ UNCHANGED <<backups, primaryKeyMap, assigned>>
       /\ IF index = -1
          THEN /\ UNCHANGED <<data, indexes, uniqueKeyMap, file>>
               /\ Returned("delete", "false", t, 0)
          ELSE /\ indexes' = _removeFromIndexes(indexes, t, deletedDoc)
               /\ uniqueKeyMap' = _removeFromUniqueKeyMap(uniqueKeyMap, t, deletedDoc)
               /\ data' = data1
               /\ saveDatabase(data1, writeOk)
               /\ Returned("delete", IF writeOk THEN "true" ELSE "save_error", t, 0)

\* an update that replaces the document before it checks the patch
update_unchecked(t, id, newData, writeOk) ==
    LET pk == primaryKeyOf(t)
        index == IF t \in DOMAIN data THEN FindIndex(data[t], pk, id) ELSE -1
        originalDoc == data[t][index + 1]
        updatedDoc == Spread(originalDoc, newData)
        data1 == Put(data, t, [data[t] EXCEPT ![index + 1] = updatedDoc])
        rejected == \/ ~_validateDataAgainstSchema(t, updatedDoc)
                    \/ Get(newData, pk) # Undef /\ Get(newData, pk) # Get(originalDoc, pk)
                    \/ ~_checkUniqueConstraintsForUpdate(uniqueKeyMap, t, updatedDoc, originalDoc)
    IN /\ InTxnStep
       /\ UNCHANGED <<backups, primaryKeyMap, assigned, indexes, uniqueKeyMap>>
       /\ IF index = -1
          THEN /\ UNCHANGED <<data, file>>
               /\ Returned("update", "null", t, 0)
          ELSE /\ data' = data1
               /\ IF rejected
                  THEN /\ UNCHANGED file
                       /\ Returned("update", "validation_error", t, 0)
                  ELSE /\ saveDatabase(data1, writeOk)
                       /\ Returned("update", "ok", t, 0)

\* update(tableName, id, newData)
update(t, id, newData, writeOk) ==
    LET pk == primaryKeyOf(t)
        index == IF t \in DOMAIN data THEN FindIndex(data[t], pk, id) ELSE -1
        originalDoc == data[t][index + 1]
        updatedDoc == Spread(originalDoc, newData)
        data1 == Put(data, t, [data[t] EXCEPT ![index + 1] = updatedDoc])
        indexes1 == _updateIndexes(_removeFromIndexes(indexes, t, originalDoc),
                                   t, updatedDoc, index)
    IN /\ InTxnStep
       /\ UNCHANGED <<backups, primaryKeyMap, assigned>>
       /\ IF index = -1
          THEN /\ UNCHANGED <<data, indexes, uniqueKeyMap, file>>
               /\ Returned("update", "null", t, 0)
          ELSE IF ~_validateDataAgainstSchema(t, updatedDoc)
          THEN /\ UNCHANGED <<data, indexes, uniqueKeyMap, file>>
               /\ Returned("update", "validation_error", t, 0)
          ELSE IF Get(newData, pk) # Undef /\ Get(newData, pk) # Get(originalDoc, pk)
          THEN /\ UNCHANGED <<data, indexes, uniqueKeyMap, file>>
               /\ Returned("update", "primary_key_error", t, 0)
          ELSE IF ~_checkUniqueConstraintsForUpdate(uniqueKeyMap, t, updatedDoc, originalDoc)
          THEN /\ UNCHANGED <<data, indexes, uniqueKeyMap, file>>
               /\ Returned("update", "unique_error", t, 0)
          ELSE IF UniqueUpdateThrows(uniqueKeyMap, t, updatedDoc, originalDoc)
          THEN /\ data' = data1
               /\ indexes' = indexes1
               /\ UNCHANGED <<uniqueKeyMap, file>>
               /\ Returned("update", "type_error", t, 0)
          ELSE /\ data' = data1
               /\ indexes' = indexes1
               /\ uniqueKeyMap' =
                     _updateUniqueKeyMapForUpdate(uniqueKeyMap, t, updatedDoc, originalDoc)
               /\ saveDatabase(data1, writeOk)
               /\ Returned("update", IF writeOk THEN "ok" ELSE "save_error", t, 0)

\* createTable(tableName, schema), for a table the configuration names
createTable(t, writeOk) ==
    LET data1 == Put(data, t, <<>>)
        field == IF "primaryKey" \in DOMAIN tables[t] THEN tables[t].primaryKey
                 ELSE "undefined"
    IN /\ ~txn.active
       /\ UNCHANGED <<backups, primaryKeyMap, assigned, txn>>
       /\ IF t \in DOMAIN data
          THEN /\ UNCHANGED <<data, indexes, uniqueKeyMap, file>>
               /\ Returned("createTable", "exists_error", t, 0)
          ELSE /\ data' = data1
               /\ indexes' = _createIndex(Put(indexes, t, EmptyObject), data1, t, field)
               /\ uniqueKeyMap' = Put(uniqueKeyMap, t, EmptyObject)
               /\ saveDatabase(data1, writeOk)
               /\ Returned("createTable", IF writeOk THEN "true" ELSE "save_error", t, 0)

\* dropTable(tableName)
dropTable(t, writeOk) ==
    /\ ~txn.active
    /\ UNCHANGED <<backups, assigned, txn>>
    /\ IF t \notin DOMAIN data
       THEN /\ UNCHANGED <<data, indexes, uniqueKeyMap, primaryKeyMap, file>>
            /\ Returned("dropTable", "false", t, 0)
       ELSE /\ data' = Del(data, t)
            /\ indexes' = Del(indexes, t)
            /\ uniqueKeyMap' = Del(uniqueKeyMap, t)
            /\ primaryKeyMap' = Del(primaryKeyMap, t)
            /\ saveDatabase(Del(data, t), writeOk)
            /\ Returned("dropTable", IF writeOk THEN "true" ELSE "save_error", t, 0)

\* the backup directory has room for a copy of the file
RoomForBackup == file \in backups \/ Cardinality(backups) < MaxBackups

\* a copy taken while a save is half way through the file
backup_midwrite ==
    /\ ~txn.active
    /\ backups' = backups \cup {CorruptFile}
    /\ UNCHANGED <<data, indexes, uniqueKeyMap, primaryKeyMap, file, assigned, txn>>
    /\ Returned("backup", "ok", "", 0)

\* backup(): copies the file as it is
backup ==
    /\ ~txn.active
    /\ RoomForBackup
    /\ backups' = backups \cup {file}
    /\ UNCHANGED <<data, indexes, uniqueKeyMap, primaryKeyMap, file, assigned, txn>>
    /\ Returned("backup", "ok", "", 0)

MissingFile == <<"missing">>

\* a restore that overwrites the file without taking the safety backup first
restore_unsaved(backupFile, backupOk) ==
    /\ ~txn.active
    /\ UNCHANGED <<indexes, primaryKeyMap, assigned, txn, backups>>
    /\ IF backupFile = MissingFile
       THEN /\ UNCHANGED <<data, uniqueKeyMap, file>>
            /\ Returned("restore", "false", "", 0)
       ELSE /\ file' = backupFile
            /\ IF CanDecrypt(backupFile)
               THEN /\ data' = JsonParse(decryptData(backupFile))
                    /\ uniqueKeyMap' = _initializeUniqueKeyMaps(JsonParse(decryptData(backupFile)))
                    /\ Returned("restore", "true", "", 0)
               ELSE /\ UNCHANGED <<data, uniqueKeyMap>>
                    /\ Returned("restore", "false", "", 0)

\* restore(backupFile); backupOk: the copy of the safety backup succeeds
restore(backupFile, backupOk) ==
    /\ ~txn.active
    /\ UNCHANGED <<indexes, primaryKeyMap, assigned, txn>>
    /\ IF backupFile = MissingFile \/ ~backupOk
       THEN /\ UNCHANGED <<data, uniqueKeyMap, file, backups>>
            /\ Returned("restore", "false", "", 0)
       ELSE /\ RoomForBackup
            /\ backups' = backups \cup {file}
            /\ file' = backupFile
            /\ IF CanDecrypt(backupFile)
               THEN /\ data' = JsonParse(decryptData(backupFile))
                    /\ uniqueKeyMap' = _initializeUniqueKeyMaps(JsonParse(decryptData(backupFile)))
                    /\ Returned("restore", "true", "", 0)
               ELSE /\ UNCHANGED <<data, uniqueKeyMap>>
                    /\ Returned("restore", "false", "", 0)

\* reset()
reset(writeOk) ==
    /\ ~txn.active
    /\ RoomForBackup
    /\ backups' = backups \cup {file}
    /\ data' = EmptyObject
    /\ primaryKeyMap' = EmptyObject
    /\ uniqueKeyMap' = EmptyObject
    /\ indexes' = EmptyObject
    /\ saveDatabase(EmptyObject, writeOk)
    /\ UNCHANGED <<assigned, txn>>
    /\ Returned("reset", IF writeOk THEN "true" ELSE "false", "", 0)

\* the forEach of the merge mode: append, overwrite or skip each document in turn
RECURSIVE MergeDocuments(_, _, _, _)
MergeDocuments(rows, docs, pk, overwrite) ==
    IF docs = <<>> THEN rows
    ELSE LET doc == Head(docs)
             existingIndex == FindIndex(rows, pk, Get(doc, pk))
         IN MergeDocuments(
                IF existingIndex = -1 THEN Append(rows, doc)
                ELSE IF overwrite THEN [rows EXCEPT ![existingIndex + 1] = doc]
                ELSE rows,
                Tail(docs), pk, overwrite)

\* a merge that replaces the colliding document whatever the options say
Imported_overwriting(importData, mode, overwrite) ==
    IF mode = "replace" THEN importData
    ELSE [t \in DOMAIN data \cup DOMAIN importData |->
            IF t \notin DOMAIN importData THEN data[t]
            ELSE MergeDocuments(IF t \in DOMAIN data THEN data[t] ELSE <<>>,
                                importData[t], primaryKeyOf(t), TRUE)]

\* this.data after the mode's branch of importFromJson
Imported(importData, mode, overwrite) ==
    IF mode = "replace" THEN importData
    ELSE [t \in DOMAIN data \cup DOMAIN importData |->
            IF t \notin DOMAIN importData THEN data[t]
            ELSE MergeDocuments(IF t \in DOMAIN data THEN data[t] ELSE <<>>,
                                importData[t], primaryKeyOf(t), overwrite)]

UnreadableFile == <<"unreadable">>

\* the JSON files the application imports
ImportSources ==
    {<<"json", JsonStringify(EmptyObject)>>,
     <<"json", JsonStringify([usuarios |->
                  <<Doc(1, "b", Str(IsoText)), Doc(3, "a", Str(IsoText))>>])>>}

\* the import of the specifications that interleave many kinds of operation
CoreImports ==
    {<<"json", JsonStringify([usuarios |->
                  <<Doc(1, "b", Str(IsoText)), Doc(3, "a", Str(IsoText))>>])>>,
     UnreadableFile}

\* importFromJson(filePath, {mode, overwrite})
importFromJson(source, mode, overwrite, writeOk) ==
    /\ ~txn.active
    /\ UNCHANGED <<backups, assigned, txn>>
    /\ IF source = UnreadableFile
       THEN /\ UNCHANGED <<data, indexes, uniqueKeyMap, primaryKeyMap, file>>
            /\ Returned("importFromJson", "false", "", 0)
       ELSE LET data1 == Imported(JsonParse(source[2]), mode, overwrite)
            IN /\ \A t \in DOMAIN data1 : Len(data1[t]) <= MaxDocs
               /\ data' = data1
               /\ uniqueKeyMap' = _initializeUniqueKeyMaps(data1)
               /\ indexes' = InitializedIndexes(indexes, data1)
               /\ primaryKeyMap' = InitializedPrimaryKeys(primaryKeyMap, data1)
               /\ saveDatabase(data1, writeOk)
               /\ Returned("importFromJson", IF writeOk THEN "true" ELSE "false", "", 0)

\* transaction(transactionFn): the snapshot is taken and transactionFn starts
transactionBegin ==
    /\ ~txn.active
    /\ txn' = [active |-> TRUE, currentState |-> JsonStringify(data),
               data |-> data, file |-> file, ops |-> 0]
    /\ UNCHANGED <<data, indexes, uniqueKeyMap, primaryKeyMap, file, backups, assigned>>
    /\ Returned("transaction", "running", "", 0)

\* a rollback that also rebuilds the registry from the restored documents
transactionFail_rebuilding ==
    /\ txn.active
    /\ data' = JsonParse(txn.currentState)
    /\ uniqueKeyMap' = _initializeUniqueKeyMaps(JsonParse(txn.currentState))
    /\ txn' = NoTxn
    /\ UNCHANGED <<indexes, primaryKeyMap, file, backups, assigned>>
    /\ Returned("transaction", "error", "", txn.ops)

\* transactionFn throws (its own failure, or one of its operations'): rollback
transactionFail ==
    /\ txn.active
    /\ data' = JsonParse(txn.currentState)
    /\ txn' = NoTxn
    /\ UNCHANGED <<indexes, uniqueKeyMap, primaryKeyMap, file, backups, assigned>>
    /\ Returned("transaction", "error", "", txn.ops)

\* transactionFn returns: the database is saved once more
transactionCommit(writeOk) ==
    /\ txn.active
    /\ txn' = NoTxn
    /\ saveDatabase(data, writeOk)
    /\ data' = IF writeOk THEN data ELSE JsonParse(txn.currentState)
    /\ UNCHANGED <<indexes, uniqueKeyMap, primaryKeyMap, backups, assigned>>
    /\ Returned("transaction", IF writeOk THEN "ok" ELSE "error", "", txn.ops)

\* the process ends and a new store is constructed over the same file
restart ==
    /\ ~txn.active
    /\ CanDecrypt(file)
    /\ data' = Constructed(file).data
    /\ uniqueKeyMap' = Constructed(file).uniqueKeyMap
    /\ indexes' = Constructed(file).indexes
    /\ primaryKeyMap' = Constructed(file).primaryKeyMap
    /\ UNCHANGED <<file, backups, assigned, txn>>
    /\ Returned("constructor", "ok", "", 0)

\* ---------------------------------------------------------------- specifications
\* every write to the file succeeds
Healthy == {TRUE}

Insert(inputs, writes) ==
    \E t \in TableNames, input \in inputs, writeOk \in writes : insert(t, input, writeOk)

Delete(writes) ==
    \E t \in TableNames, id \in Keys, writeOk \in writes : delete(t, Num(id), writeOk)

Update(inputs, writes) ==
    \E t \in TableNames, id \in Keys, newData \in inputs, writeOk \in writes :
        update(t, Num(id), newData, writeOk)

\* a store the application only inserts into, updates and deletes from
NextCrud == Insert(InsertInputs, Healthy) \/ Update(UpdateInputs, Healthy) \/ Delete(Healthy)

SpecCrud == Init /\ [][NextCrud]_vars

CreateTable(writes) == \E t \in TableNames, writeOk \in writes : createTable(t, writeOk)

DropTable(writes) == \E t \in TableNames, writeOk \in writes : dropTable(t, writeOk)

Backup == backup

\* the paths the application hands to restore: a backup of this session, a
\* backup an earlier session left, a file that does not decrypt, no file
RestoreSources ==
    backups \cup {encryptData(JsonStringify(SeedDatabase)), CorruptFile, MissingFile}

Restore == \E backupFile \in RestoreSources : restore(backupFile, TRUE)

Reset(writes) == \E writeOk \in writes : reset(writeOk)

ImportFromJson(sources, writes) ==
    \E source \in sources, mode \in {"merge", "replace"},
       overwrite \in BOOLEAN, writeOk \in writes :
        importFromJson(source, mode, overwrite, writeOk)

TransactionBegin == transactionBegin

TransactionFail == transactionFail

TransactionCommit(writes) == \E writeOk \in writes : transactionCommit(writeOk)

Restart == restart

\* insert, update and delete, alone or inside transactions
NextTxn ==
    \/ Insert(CoreInserts, Healthy) \/ Update(CoreUpdates, Healthy) \/ Delete(Healthy)
    \/ TransactionBegin \/ TransactionFail \/ TransactionCommit(Healthy)

SpecTxn == Init /\ [][NextTxn]_vars

\* the mutating operations of the public surface outside transactions, and
\* restarts
Next ==
    \/ Insert(CoreInserts, Healthy) \/ Update(CoreUpdates, Healthy) \/ Delete(Healthy)
    \/ CreateTable(Healthy) \/ DropTable(Healthy)
    \/ Backup \/ Restore \/ Reset(Healthy) \/ ImportFromJson(CoreImports, Healthy)
    \/ Restart

Spec == Init /\ [][Next]_vars

\* a write to the file may be refused
Faulty == BOOLEAN

\* insert, update, delete, createTable and dropTable over a disk that may refuse
\* a write
NextFaulty ==
    \/ Insert(CoreInserts, Faulty) \/ Update(CoreUpdates, Faulty) \/ Delete(Faulty)
    \/ CreateTable(Faulty) \/ DropTable(Faulty)

SpecFaulty == Init /\ [][NextFaulty]_vars

\* insert, update and delete with imports in between, and restarts
NextImport ==
    \/ Insert(CoreInserts, Healthy) \/ Update(CoreUpdates, Healthy) \/ Delete(Healthy)
    \/ ImportFromJson(ImportSources \cup {UnreadableFile}, Healthy)
    \/ Restart

SpecImport == Init /\ [][NextImport]_vars

\* ---------------------------------------------------------------- reads
\* findById(tableName, id): <<"null">> or <<"document", copy>>
findById(t, id) ==
    LET pk == primaryKeyOf(t)
    IN IF t \notin DOMAIN data THEN <<"null">>
       ELSE IF t \in DOMAIN indexes /\ pk \in DOMAIN indexes[t]
       THEN LET key == ToPropertyKey(id)
            IN IF key \notin DOMAIN indexes[t][pk] THEN <<"null">>
               ELSE LET index == indexes[t][pk][key]
                    IN <<"document",
                         IF index + 1 \in DOMAIN data[t] THEN data[t][index + 1]
                         ELSE EmptyObject>>
       ELSE LET index == FindIndex(data[t], pk, id)
            IN IF index = -1 THEN <<"null">> ELSE <<"document", data[t][index + 1]>>

\* a query value that is an object of operators: { $gt: 1, ... }
Operators(ops) == <<"operators", ops>>

\* an array literal, as the operand of $in and $nin
Array(seq) == <<"array", seq>>

\* a === b
StrictEquals(a, b) == a[1] = b[1] /\ a = b

\* the time of the Date of the documents, in seconds (the code compares
\* milliseconds; against the numbers of the documents the order is the same)
DateTime == 1704067200

\* the values the relational operators convert to a number; the others give NaN
IsNumeric(v) == v[1] \in {"number", "null", "date"}

ToNumber(v) ==
    CASE v[1] = "number" -> v[2]
      [] v[1] = "date" -> DateTime
      [] OTHER -> 0

\* a < b, for operands of which at most one is a string
LessThan(a, b) == IsNumeric(a) /\ IsNumeric(b) /\ ToNumber(a) < ToNumber(b)

\* a <= b
LessOrEqual(a, b) == IsNumeric(a) /\ IsNumeric(b) /\ ToNumber(a) <= ToNumber(b)

\* opValue.includes(value)
Includes(opValue, value) ==
    \E i \in DOMAIN opValue[2] : StrictEquals(opValue[2][i], value)

\* the own enumerable properties for...in visits
OwnProperties(v) == IF v[1] = "operators" THEN v[2] ELSE EmptyObject

\* _matchesOperators(value, operators)
_matchesOperators(value, operators) ==
    \A op \in DOMAIN operators :
        LET opValue == operators[op]
        IN CASE op = "$gt" -> LessThan(opValue, value)
             [] op = "$gte" -> LessOrEqual(opValue, value)
             [] op = "$lt" -> LessThan(value, opValue)
             [] op = "$lte" -> LessOrEqual(value, opValue)
             [] op = "$ne" -> ~StrictEquals(value, opValue)
             [] op = "$in" -> opValue[1] = "array" /\ Includes(opValue, value)
             [] op = "$nin" -> opValue[1] = "array" /\ ~Includes(opValue, value)
             [] OTHER -> TRUE

\* _matchesQuery(doc, query)
_matchesQuery(doc, query) ==
    \A field \in DOMAIN query :
        LET queryValue == query[field]
        IN IF typeof(queryValue) = "object" /\ queryValue # Null
           THEN _matchesOperators(Get(doc, field), OwnProperties(queryValue))
           ELSE StrictEquals(Get(doc, field), queryValue)

\* array.filter(doc => this._matchesQuery(doc, query))
RECURSIVE Filter(_, _)
Filter(rows, query) ==
    IF rows = <<>> THEN <<>>
    ELSE LET rest == Filter(SubSeq(rows, 1, Len(rows) - 1), query)
             doc == rows[Len(rows)]
         IN IF _matchesQuery(doc, query) THEN Append(rest, doc) ELSE rest

\* find(tableName, query): the array it returns; a position the array does not
\* have reads as Undef
find(t, query) ==
    IF t \notin DOMAIN data THEN <<>>
    ELSE IF DOMAIN query = {} THEN data[t]
    ELSE LET singleFieldQuery == Cardinality(DOMAIN query) = 1
             queryField == CHOOSE f \in DOMAIN query : TRUE
         IN IF singleFieldQuery /\ t \in DOMAIN indexes /\ queryField \in DOMAIN indexes[t]
            THEN LET key == ToPropertyKey(query[queryField])
                 IN IF key \in DOMAIN indexes[t][queryField]
                    THEN LET index == indexes[t][queryField][key]
                         IN <<IF index + 1 \in DOMAIN data[t]
                              THEN data[t][index + 1] ELSE Undef>>
                    ELSE <<>>
            ELSE Filter(data[t], query)

\* ---------------------------------------------------------------- aggregation
\* the texts "$field" the pipelines use, and the field each one names:
\* valueField.startsWith('$') and valueField.substring(1)
FieldRefs == [x \in {"$id", "$email", "$fecha"} |->
                 CASE x = "$id" -> "id" [] x = "$email" -> "email" [] OTHER -> "fecha"]

IsFieldRef(v) == v[1] = "string" /\ v[2] \in DOMAIN FieldRefs

\* a value that an if (...) or an || takes for false
FalsyValue(v) == v \in {Undef, Null, <<"NaN">>} \/ v = Num(0) \/ v = Str("")

Infinity == <<"Infinity">>

MinusInfinity == <<"-Infinity">>

NaN == <<"NaN">>

\* the number Math.min and Math.max make of an argument
Coerce(v) ==
    CASE v[1] \in {"number", "Infinity", "-Infinity"} -> v
      [] v[1] = "date" -> Num(DateTime)
      [] v[1] = "null" -> Num(0)
      [] OTHER -> NaN

\* Math.min(a, b)
MathMin(a, b) ==
    LET x == Coerce(a)
        y == Coerce(b)
    IN IF x = NaN \/ y = NaN THEN NaN
       ELSE IF x = MinusInfinity \/ y = MinusInfinity THEN MinusInfinity
       ELSE IF x = Infinity THEN y
       ELSE IF y = Infinity THEN x
       ELSE IF x[2] <= y[2] THEN x ELSE y

\* Math.max(a, b)
MathMax(a, b) ==
    LET x == Coerce(a)
        y == Coerce(b)
    IN IF x = NaN \/ y = NaN THEN NaN
       ELSE IF x = Infinity \/ y = Infinity THEN Infinity
       ELSE IF x = MinusInfinity THEN y
       ELSE IF y = MinusInfinity THEN x
       ELSE IF x[2] >= y[2] THEN x ELSE y

\* acc += v, for a number acc: a sum of numbers, or the text the two make
Plus(acc, v) ==
    IF acc[1] = "number" /\ v[1] = "number" THEN Num(acc[2] + v[2])
    ELSE Str(ToPropertyKey(acc) \o ToPropertyKey(v))

\* the value a group's accumulator starts with; a field whose accumulator
\* names no known operator is not set
InitialAccumulator(accumulator) ==
    IF ~FalsyValue(Get(accumulator, "$sum")) THEN Num(0)
    ELSE IF ~FalsyValue(Get(accumulator, "$min")) THEN Infinity
    ELSE IF ~FalsyValue(Get(accumulator, "$max")) THEN MinusInfinity
    ELSE Undef

\* the accumulator after one more document of the group
Accumulate(acc, accumulator, doc) ==
    IF ~FalsyValue(Get(accumulator, "$sum"))
    THEN LET valueField == accumulator["$sum"]
         IN IF valueField = Num(1) THEN Plus(acc, Num(1))
            ELSE IF IsFieldRef(valueField)
            THEN LET v == Get(doc, FieldRefs[valueField[2]])
                 IN Plus(acc, IF FalsyValue(v) THEN Num(0) ELSE v)
            ELSE acc
    ELSE IF ~FalsyValue(Get(accumulator, "$min"))
    THEN LET valueField == accumulator["$min"]
         IN IF IsFieldRef(valueField)
            THEN LET v == Get(doc, FieldRefs[valueField[2]])
                 IN MathMin(acc, IF FalsyValue(v) THEN Infinity ELSE v)
            ELSE acc
    ELSE IF ~FalsyValue(Get(accumulator, "$max"))
    THEN LET valueField == accumulator["$max"]
         IN IF IsFieldRef(valueField)
            THEN LET v == Get(doc, FieldRefs[valueField[2]])
                 IN MathMax(acc, IF FalsyValue(v) THEN MinusInfinity ELSE v)
            ELSE acc
    ELSE acc

\* the fields of a $group other than _id
AccumulatorFields(group) == DOMAIN group \ {"_id"}

\* the groups after the forEach has seen the documents of result: a sequence of
\* <<groupKeyStr, group>> in the order the keys were first met
RECURSIVE Grouped(_, _)
Grouped(result, group) ==
    IF result = <<>> THEN <<>>
    ELSE LET groups == Grouped(SubSeq(result, 1, Len(result) - 1), group)
             doc == result[Len(result)]
             idField == Get(group, "_id")
             groupKey == IF IsFieldRef(idField) THEN Get(doc, FieldRefs[idField[2]])
                         ELSE Str("_all")
             groupKeyStr == ToPropertyKey(groupKey)
             known == {i \in DOMAIN groups : groups[i][1] = groupKeyStr}
             fresh == [f \in {"_id"} \cup {g \in AccumulatorFields(group) :
                                              InitialAccumulator(group[g]) # Undef} |->
                          IF f = "_id" THEN groupKey ELSE InitialAccumulator(group[f])]
             opened == IF known = {} THEN Append(groups, <<groupKeyStr, fresh>>) ELSE groups
             at == CHOOSE i \in DOMAIN opened : opened[i][1] = groupKeyStr
             updated == [f \in DOMAIN opened[at][2] |->
                            IF f = "_id" THEN opened[at][2][f]
                            ELSE Accumulate(opened[at][2][f], group[f], doc)]
         IN [opened EXCEPT ![at] = <<groupKeyStr, updated>>]

\* the property names that are array indexes: Object.values lists them first,
\* in ascending order
IntegerKeys == {NumberToString(n) : n \in 0..MaxKey}

IntegerOf(k) == CHOOSE n \in 0..MaxKey : NumberToString(n) = k

\* entries sorted by their integer key, ascending
RECURSIVE ByIntegerKey(_)
ByIntegerKey(entries) ==
    IF entries = {} THEN <<>>
    ELSE LET least == CHOOSE e \in entries :
                         \A o \in entries : IntegerOf(e[1]) <= IntegerOf(o[1])
         IN <<least[2]>> \o ByIntegerKey(entries \ {least})

\* the groups of the entries whose key is not an integer, in their order
RECURSIVE ByInsertion(_)
ByInsertion(groups) ==
    IF groups = <<>> THEN <<>>
    ELSE IF Head(groups)[1] \in IntegerKeys THEN ByInsertion(Tail(groups))
    ELSE <<Head(groups)[2]>> \o ByInsertion(Tail(groups))

\* Object.values(groups)
ObjectValues(groups) ==
    ByIntegerKey({groups[i] : i \in {j \in DOMAIN groups : groups[j][1] \in IntegerKeys}})
        \o ByInsertion(groups)

\* the comparator of $sort: negative, zero or positive; sort is a sequence of
\* <<field, dir>> in the order of the keys of the $sort object
RECURSIVE Compare(_, _, _)
Compare(a, b, sort) ==
    IF sort = <<>> THEN 0
    ELSE LET field == Head(sort)[1]
             dir == Head(sort)[2]
         IN IF LessThan(Get(a, field), Get(b, field)) THEN (-1) * dir
            ELSE IF LessThan(Get(b, field), Get(a, field)) THEN dir
            ELSE Compare(a, b, Tail(sort))

\* Array.prototype.sort with that comparator: stable, each element goes after
\* the last one that does not compare greater than it
RECURSIVE Sorted(_, _)
Sorted(result, sort) ==
    IF result = <<>> THEN <<>>
    ELSE LET before == Sorted(SubSeq(result, 1, Len(result) - 1), sort)
             last == result[Len(result)]
             place == Max({0} \cup {j \in 1..Len(before) :
                                       Compare(before[j], last, sort) <= 0})
         IN SubSeq(before, 1, place) \o <<last>> \o SubSeq(before, place + 1, Len(before))

\* $project: the fields marked 1
Projected(doc, project) ==
    [f \in {g \in DOMAIN project : project[g] = Num(1)} |-> Get(doc, f)]

\* one pass of the loop over the pipeline: the stage's $match, $project, $group,
\* $sort, $limit and $skip, each applied when the stage has it and it is truthy
Stage(result, stage) ==
    LET matched == IF "$match" \in DOMAIN stage THEN Filter(result, stage["$match"])
                   ELSE result
        projected == IF "$project" \in DOMAIN stage
                     THEN [i \in DOMAIN matched |-> Projected(matched[i], stage["$project"])]
                     ELSE matched
        grouped == IF "$group" \in DOMAIN stage
                   THEN ObjectValues(Grouped(projected, stage["$group"]))
                   ELSE projected
        sorted == IF "$sort" \in DOMAIN stage /\ stage["$sort"] # <<>>
                  THEN Sorted(grouped, stage["$sort"]) ELSE grouped
        limited == IF ~FalsyValue(Get(stage, "$limit"))
                   THEN SubSeq(sorted, 1, IF stage["$limit"][2] < Len(sorted)
                                          THEN stage["$limit"][2] ELSE Len(sorted))
                   ELSE sorted
    IN IF ~FalsyValue(Get(stage, "$skip"))
       THEN SubSeq(limited, stage["$skip"][2] + 1, Len(limited))
       ELSE limited

\* the stages in the order opposite to the given one
RECURSIVE RunPipeline_reversed(_, _)
RunPipeline_reversed(result, pipeline) ==
    IF pipeline = <<>> THEN result
    ELSE RunPipeline_reversed(Stage(result, pipeline[Len(pipeline)]),
                              SubSeq(pipeline, 1, Len(pipeline) - 1))

\* for (const stage of pipeline)
RECURSIVE RunPipeline(_, _)
RunPipeline(result, pipeline) ==
    IF pipeline = <<>> THEN result
    ELSE RunPipeline(Stage(result, Head(pipeline)), Tail(pipeline))

\* aggregate(tableName, pipeline)
aggregate(t, pipeline) ==
    IF t \notin DOMAIN data THEN <<>> ELSE RunPipeline(data[t], pipeline)

\* ---------------------------------------------------------------- read operations
\* the queries and the pipelines the application reads with
ReadQueries ==
    <<EmptyObject, [email |-> Str("a")], [id |-> Operators(("$gt" :> Num(1)))],
      [fecha |-> Str(IsoText)]>>

ReadPipelines ==
    << <<("$sort" :> << <<"id", -1>> >>)>>,
       <<("$match" :> [fecha |-> Str(IsoText)]),
         ("$group" :> [_id |-> Str("$email"), total |-> ("$sum" :> Str("$id"))]),
         ("$sort" :> << <<"total", -1>> >>)>> >>

\* a read returns: the operation, its arguments (the table and the number of
\* the query, pipeline, key or column) and the value
Read(op, t, n, value) ==
    ret' = [op |-> op, res |-> "value", table |-> t, key |-> 0,
            call |-> n, value |-> <<"value", value>>]

\* findAll(tableName)
findAll(t) == IF t \notin DOMAIN data THEN <<>> ELSE data[t]

\* findOne(tableName, query)
findOne(t, query) == IF Len(find(t, query)) > 0 THEN find(t, query)[1] ELSE Null

\* count(tableName, query), query 0 standing for no query
count(t, n) ==
    IF t \notin DOMAIN data THEN 0
    ELSE IF n = 0 THEN Len(data[t])
    ELSE Len(find(t, ReadQueries[n]))

\* getAllColumns(tableName, columnName)
getAllColumns(t, columnName) ==
    IF t \notin DOMAIN data THEN <<>>
    ELSE [i \in DOMAIN data[t] |-> Get(data[t][i], columnName)]

\* a table after aggregate has sorted an aliased array in place
aggregateSorts_aliased(t, pipeline) ==
    IF t \in DOMAIN data /\ DOMAIN Head(pipeline) = {"$sort"}
    THEN Put(data, t, Sorted(data[t], Head(pipeline)["$sort"]))
    ELSE data

\* this.data after aggregate: result.sort works on the copy [...this.data[t]]
aggregateSorts(t, pipeline) == data

RECURSIVE SumOfLengths(_)
SumOfLengths(S) ==
    IF S = {} THEN 0
    ELSE LET t == CHOOSE x \in S : TRUE IN Len(data[t]) + SumOfLengths(S \ {t})

\* stats(); the size of the file is represented by the file
stats ==
    [tables |-> [t \in DOMAIN data |->
                    [documents |-> Len(data[t]),
                     indexes |-> IF t \in DOMAIN indexes THEN DOMAIN indexes[t] ELSE {}]],
     totalDocuments |-> SumOfLengths(DOMAIN data),
     databaseSize |-> file,
     indexes |-> [t \in DOMAIN indexes |-> Cardinality(DOMAIN indexes[t])]]

Untouched == UNCHANGED <<data, indexes, primaryKeyMap, uniqueKeyMap, file, backups, txn, assigned>>

FindAll == \E t \in TableNames : Read("findAll", t, 0, findAll(t)) /\ Untouched

Find ==
    \E t \in TableNames, n \in DOMAIN ReadQueries :
        Read("find", t, n, find(t, ReadQueries[n])) /\ Untouched

FindOne ==
    \E t \in TableNames, n \in DOMAIN ReadQueries :
        Read("findOne", t, n, findOne(t, ReadQueries[n])) /\ Untouched

FindById ==
    \E t \in TableNames, id \in Keys :
        Read("findById", t, id, findById(t, Num(id))) /\ Untouched

Count ==
    \E t \in TableNames, n \in {0} \cup DOMAIN ReadQueries :
        Read("count", t, n, count(t, n)) /\ Untouched

GetAllColumns ==
    \E t \in TableNames : Read("getAllColumns", t, 0, getAllColumns(t, "email")) /\ Untouched

Aggregate ==
    \E t \in TableNames, n \in DOMAIN ReadPipelines :
        /\ Read("aggregate", t, n, aggregate(t, ReadPipelines[n]))
        /\ data' = aggregateSorts(t, ReadPipelines[n])
        /\ UNCHANGED <<indexes, primaryKeyMap, uniqueKeyMap, file, backups, txn, assigned>>

Stats == Read("stats", "", 0, stats) /\ Untouched

\* insert, update and delete with reads in between
NextReads ==
    \/ Insert(CoreInserts, Healthy) \/ Update(CoreUpdates, Healthy) \/ Delete(Healthy)
    \/ FindAll \/ Find \/ FindOne \/ FindById \/ Count \/ GetAllColumns
    \/ Aggregate \/ Stats

SpecReads == Init /\ [][NextReads]_vars

\* ---------------------------------------------------------------- claims
Live(t) == IF t \in DOMAIN data THEN Range(data[t]) ELSE {}

\* C1: after insert, update and delete operations every index entry that belongs
\* to a live document (its key is the value a live document has in the indexed
\* field) holds the current position of a document with that value.
C1_IndexEntriesCurrent ==
    \A t \in DOMAIN indexes \cap DOMAIN data :
        \A f \in DOMAIN indexes[t] :
            \A k \in DOMAIN indexes[t][f] :
                (\E d \in Live(t) : Get(d, f) # Undef /\ ToPropertyKey(Get(d, f)) = k)
                => /\ indexes[t][f][k] + 1 \in DOMAIN data[t]
                   /\ Get(data[t][indexes[t][f][k] + 1], f) # Undef
                   /\ ToPropertyKey(Get(data[t][indexes[t][f][k] + 1], f)) = k

\* C2: no table holds two live documents with the same non-null value in a
\* field its configuration declares unique.
C2_NoDuplicateUnique ==
    \A t \in DOMAIN data :
        \A k \in uniqueOf(t) :
            \A i, j \in DOMAIN data[t] :
                (i # j /\ Get(data[t][i], k) \notin {Undef, Null})
                => Get(data[t][i], k) # Get(data[t][j], k)

\* an insert or an update was turned down for uniqueness while the table is full
C2_Witness ==
    /\ ret.op \in {"insert", "update"}
    /\ ret.res = "unique_error"
    /\ "usuarios" \in DOMAIN data
    /\ Len(data["usuarios"]) = 2
    /\ \A d \in Live("usuarios") : Get(d, "email") \notin {Undef, Null}

\* C3: a key that insert assigns by itself is greater than every key it
\* assigned before in that table, whatever was deleted in between.
C3_AutoKeysIncrease ==
    [][(ret'.op = "insert" /\ ret'.key > 0)
        => \A k \in assigned[ret'.table] : ret'.key > k]_vars

\* a key was assigned after the document holding an earlier one was deleted
C3_Witness ==
    /\ ret.op = "insert"
    /\ ret.key > 0
    /\ \E k \in assigned[ret.table] :
          k < ret.key /\ \A d \in Live(ret.table) : Get(d, "id") # Num(k)

\* C4: findById with the primary key of a live document returns that document.
C4_FindByIdReturnsLive ==
    \A t \in DOMAIN data :
        \A d \in Live(t) :
            Get(d, primaryKeyOf(t)) # Undef
            => findById(t, Get(d, primaryKeyOf(t))) = <<"document", d>>

\* C5: an insert of a valid document whose email is the email of a live document
\* fails with a uniqueness error and leaves the table's sequence as it was.
C5_DuplicateInsertRejected ==
    [][\A t \in DOMAIN data, input \in InsertInputs :
          (/\ insert(t, input, TRUE)
           /\ _validateDataAgainstSchema(t, input)
           /\ Get(input, "email") \notin {Undef, Null}
           /\ \E d \in Live(t) : Get(d, "email") = Get(input, "email"))
          => ret'.res = "unique_error" /\ data'[t] = data[t]]_vars

\* C6: an insert rejected for uniqueness changes nothing: the tables, the
\* indexes, the registry and the primary-key counters are as they were.
C6_UniqueRejectionMutatesNothing ==
    [][(ret'.op = "insert" /\ ret'.res = "unique_error")
        => UNCHANGED <<data, indexes, uniqueKeyMap, primaryKeyMap>>]_vars

\* C7: an insert rejected by schema validation changes nothing: the tables, the
\* indexes, the registry, the counters and the file are as they were, also when
\* the table did not exist.
C7_ValidationRejectionMutatesNothing ==
    [][(ret'.op = "insert" /\ ret'.res = "validation_error")
        => UNCHANGED <<data, indexes, uniqueKeyMap, primaryKeyMap, file>>]_vars

\* C8: when the transaction function fails, every table's sequence in memory is
\* the sequence it was when the transaction started.
C8_RollbackRestoresSequences ==
    [][(txn.active /\ ret'.op = "transaction" /\ ret'.res = "error")
        => data' = txn.data]_vars

\* C9: when the transaction function fails, the file holds the Database it held
\* when the transaction started.
C9_FailedTransactionWritesNothing ==
    [][(txn.active /\ ret'.op = "transaction" /\ ret'.res = "error")
        => JsonParse(decryptData(file')) = JsonParse(decryptData(txn.file))]_vars

\* C10: when a mutating operation returns success, the file decrypts and parses
\* to the Database in memory.
C10_FileEqualsMemoryOnSuccess ==
    (/\ ret.op \in {"insert", "update", "delete", "createTable", "dropTable",
                    "importFromJson", "restore", "reset"}
     /\ ret.res \in {"ok", "true"})
    => CanDecrypt(file) /\ JsonParse(decryptData(file)) = data

\* the mutation an operation that reached its save has made in memory
MutationApplied ==
    LET t == ret'.table
        before == IF t \in DOMAIN data THEN data[t] ELSE <<>>
    IN CASE ret'.op = "insert" ->
              /\ t \in DOMAIN data'
              /\ Len(data'[t]) = Len(before) + 1
              /\ \A i \in DOMAIN before : data'[t][i] = before[i]
         [] ret'.op = "delete" ->
              /\ Len(data'[t]) = Len(before) - 1
              /\ Range(data'[t]) \subseteq Range(before)
         [] ret'.op = "update" ->
              \E i \in DOMAIN before, newData \in CoreUpdates \cup UpdateInputs :
                  data'[t] = [before EXCEPT ![i] = Spread(@, newData)]
         [] ret'.op = "createTable" -> t \notin DOMAIN data /\ data' = Put(data, t, <<>>)
         [] ret'.op = "dropTable" -> t \in DOMAIN data /\ data' = Del(data, t)
         [] OTHER -> FALSE

\* C11: when the write fails in insert, update, delete, createTable or dropTable
\* the operation throws, the mutation stays applied in memory and the file keeps
\* its content; the next save that succeeds writes the whole Database.
C11_FailedSaveKeepsMutation ==
    [][/\ ret'.res = "save_error" => (file' = file /\ MutationApplied)
       /\ ret'.res \in {"ok", "true"} => decryptData(file') = JsonStringify(data')]_vars

\* a write failed and the file holds less than memory does
C11_Witness ==
    /\ ret.res = "save_error"
    /\ ret.op = "insert"
    /\ decryptData(file) # JsonStringify(data)

\* C12: restore of a file that does not exist throws to its caller (the result
\* is an error, not false) and leaves the file and the Database as they were.
C12_RestoreMissingRaises ==
    [][(\E backupOk \in BOOLEAN : restore(MissingFile, backupOk))
        => (ret'.res = "error" /\ file' = file /\ data' = data)]_vars

\* C13: after restore returns success the Database, the indexes, the registry
\* and the counters are those of a store newly constructed over the file.
C13_RestoreEqualsFreshLoad ==
    (ret.op = "restore" /\ ret.res = "true")
    => /\ data = Constructed(file).data
       /\ indexes = Constructed(file).indexes
       /\ uniqueKeyMap = Constructed(file).uniqueKeyMap
       /\ primaryKeyMap = Constructed(file).primaryKeyMap

\* the positions of the source documents whose key no document of rows has
Incoming(rows, docs, pk) ==
    {j \in DOMAIN docs : FindIndex(rows, pk, Get(docs[j], pk)) = -1}

\* the documents of docs at the positions S, in the order of docs
RECURSIVE Selected(_, _)
Selected(docs, S) ==
    IF docs = <<>> THEN <<>>
    ELSE LET rest == Selected(SubSeq(docs, 1, Len(docs) - 1), S)
         IN IF Len(docs) \in S THEN Append(rest, docs[Len(docs)]) ELSE rest

C15_ImportRebuilds ==
    (ret.op = "importFromJson" /\ ret.res = "true")
    => /\ DOMAIN indexes \subseteq DOMAIN data
       /\ DOMAIN uniqueKeyMap \subseteq DOMAIN data
       /\ DOMAIN primaryKeyMap \subseteq DOMAIN data
       /\ \A t \in DOMAIN data \cap DOMAIN tables :
             /\ t \in DOMAIN indexes /\ t \in DOMAIN uniqueKeyMap /\ t \in DOMAIN primaryKeyMap
             /\ \A f \in {primaryKeyOf(t)} \cup uniqueOf(t) :
                   f \in DOMAIN indexes[t] /\ indexes[t][f] = BuildIndex(data[t], f)
             /\ \A k \in uniqueOf(t) :
                   uniqueKeyMap[t][k] =
                       {Get(d, k) : d \in Live(t)} \ {Undef, Null}
             /\ \A d \in Live(t) :
                   typeof(Get(d, primaryKeyOf(t))) = "number"
                   => primaryKeyMap[t] > Get(d, primaryKeyOf(t))[2]

\* queries that constrain one field with one comparison operator
OperatorQueries ==
    {[id |-> Operators(("$gt" :> Num(1)))],
     [id |-> Operators(("$lte" :> Num(1)))],
     [id |-> Operators(("$ne" :> Num(1)))],
     [id |-> Operators(("$in" :> Array(<<Num(1), Num(2)>>)))],
     [email |-> Operators(("$ne" :> Str("a")))],
     [email |-> Operators(("$nin" :> Array(<<Str("b")>>)))]}

\* the documents of rows that satisfy every operator of a one-field query, in
\* the order of rows
RECURSIVE Satisfying(_, _)
Satisfying(rows, query) ==
    IF rows = <<>> THEN <<>>
    ELSE LET rest == Satisfying(SubSeq(rows, 1, Len(rows) - 1), query)
             doc == rows[Len(rows)]
             field == CHOOSE f \in DOMAIN query : TRUE
         IN IF _matchesOperators(Get(doc, field), query[field][2])
            THEN Append(rest, doc) ELSE rest

\* C16: a find whose query constrains one field with a comparison operator
\* returns exactly the documents that satisfy the operator, in table order,
\* also when the field is indexed.
C16_OperatorFindScans ==
    \A t \in DOMAIN data, query \in OperatorQueries :
        find(t, query) = Satisfying(data[t], query)

\* queries with literals, with operators, with both, and with a Date literal
Queries ==
    OperatorQueries
    \cup {[email |-> Str("a")], [email |-> Null], [id |-> Num(2)],
          [id |-> Num(1), email |-> Str("a")],
          [id |-> Num(2), email |-> Str("a")],
          [email |-> Str("b"), id |-> Operators(("$gt" :> Num(0)) @@ ("$lt" :> Num(2)))],
          [email |-> Str("b"), id |-> Operators(("$gte" :> Num(2)))],
          [fecha |-> DateObj]}

\* an operator holds between a document's value and its operand
Holds(op, value, opValue) ==
    CASE op = "$gt" -> LessThan(opValue, value)
      [] op = "$gte" -> LessOrEqual(opValue, value)
      [] op = "$lt" -> LessThan(value, opValue)
      [] op = "$lte" -> LessOrEqual(value, opValue)
      [] op = "$ne" -> ~StrictEquals(value, opValue)
      [] op = "$in" -> Includes(opValue, value)
      [] op = "$nin" -> ~Includes(opValue, value)

\* the predicate of a query: every field's literal equals the document's value
\* or, for an operator object, every operator it lists holds
Matches(doc, query) ==
    \A field \in DOMAIN query :
        IF query[field][1] = "operators"
        THEN \A op \in DOMAIN query[field][2] :
                Holds(op, Get(doc, field), query[field][2][op])
        ELSE StrictEquals(Get(doc, field), query[field])

\* the documents of rows that match, in the order of rows
RECURSIVE Matching(_, _)
Matching(rows, query) ==
    IF rows = <<>> THEN <<>>
    ELSE LET rest == Matching(SubSeq(rows, 1, Len(rows) - 1), query)
         IN IF Matches(rows[Len(rows)], query)
            THEN Append(rest, rows[Len(rows)]) ELSE rest

\* C17: a document matches a query iff every field's literal equals its value
\* or every listed operator holds for it, and find on a table without indexes
\* returns exactly the matching documents in table order.
C17_QueryIsConjunction ==
    \A t \in DOMAIN data, query \in Queries :
        /\ \A doc \in Live(t) : _matchesQuery(doc, query) <=> Matches(doc, query)
        /\ (t \notin DOMAIN indexes \/ DOMAIN indexes[t] = {})
              => find(t, query) = Matching(data[t], query)

\* the stages of the pipeline: match on a field value
MatchStages ==
    {("$match" :> [fecha |-> Str(IsoText)]),
     ("$match" :> [email |-> Str("a")]),
     ("$match" :> [id |-> Operators(("$gte" :> Num(2)))])}

\* group by email, summing id into total
GroupByEmail ==
    ("$group" :> [_id |-> Str("$email"), total |-> ("$sum" :> Str("$id"))])

\* sort by total, descending
SortByTotal == ("$sort" :> << <<"total", -1>> >>)

\* the sum of the ids of the documents of rows at the positions S
RECURSIVE SumOfIds(_, _)
SumOfIds(rows, S) ==
    IF S = {} THEN 0
    ELSE LET i == CHOOSE j \in S : TRUE
         IN Get(rows[i], "id")[2] + SumOfIds(rows, S \ {i})

\* C18: match, then group by a key with a sum, then sort descending on the sum,
\* returns one result per key value of the matched documents, with the sum of
\* the source field over that key's matched documents, highest total first.
C18_MatchGroupSort ==
    \A t \in DOMAIN data, match \in MatchStages :
        LET result == aggregate(t, <<match, GroupByEmail, SortByTotal>>)
            matched == {i \in DOMAIN data[t] : Matches(data[t][i], match["$match"])}
            keys == {Get(data[t][i], "email") : i \in matched}
        IN /\ Len(result) = Cardinality(keys)
           /\ \A k \in keys :
                 \E i \in DOMAIN result :
                     result[i] =
                        [_id |-> k,
                         total |-> Num(SumOfIds(data[t],
                                      {j \in matched : Get(data[t][j], "email") = k}))]
           /\ \A i, j \in DOMAIN result :
                 i < j => result[i].total[2] >= result[j].total[2]

\* two matched documents share the key and their ids are summed
C18_Witness ==
    /\ "usuarios" \in DOMAIN data
    /\ \E i \in DOMAIN aggregate("usuarios",
                 <<("$match" :> [fecha |-> Str(IsoText)]), GroupByEmail, SortByTotal>>) :
          aggregate("usuarios",
              <<("$match" :> [fecha |-> Str(IsoText)]), GroupByEmail, SortByTotal>>)[i]
            = [_id |-> Str("a"), total |-> Num(4)]

ReadOps ==
    {"findAll", "find", "findOne", "findById", "count", "getAllColumns",
     "aggregate", "stats"}

\* C19: a read operation leaves the Database, the indexes, the registry, the
\* counters and the file as they were, and the same read repeated with no
\* mutation in between returns an equal result.
C19_ReadsChangeNothing ==
    [][ret'.op \in ReadOps
        => /\ UNCHANGED <<data, indexes, uniqueKeyMap, primaryKeyMap, file>>
           /\ (ret.op = ret'.op /\ ret.table = ret'.table /\ ret.call = ret'.call)
                 => ret'.value = ret.value]_vars

\* a descending sort was aggregated over a table held in ascending order
C19_Witness ==
    /\ ret.op = "aggregate"
    /\ ret.call = 1
    /\ Len(ret.value[2]) = 2
    /\ ret.value[2][1].id[2] > ret.value[2][2].id[2]

\* ---------------------------------------------------------------- legacy format
\* The earlier version wrote the file as the characters of the JSON text, each
\* XORed with a character of the passphrase.  A text is the sequence of its
\* character codes.
Colon == 58

\* a ^ b on character codes
RECURSIVE Xor(_, _)
Xor(a, b) ==
    IF a = 0 /\ b = 0 THEN 0
    ELSE (((a % 2) + (b % 2)) % 2) + 2 * Xor(a \div 2, b \div 2)

\* the earlier version's encryptData (the same function was its decryptData)
legacy_encryptData(chars, encryptionKey) ==
    [i \in 1..Len(chars) |->
        Xor(chars[i], encryptionKey[((i - 1) % Len(encryptionKey)) + 1])]

_legacyDecrypt(chars, encryptionKey) ==
    [i \in 1..Len(chars) |->
        Xor(chars[i], encryptionKey[((i - 1) % Len(encryptionKey)) + 1])]

\* encryptedData.split(':').length
Parts(chars) == Cardinality({i \in DOMAIN chars : chars[i] = Colon}) + 1

\* decryptData on the characters of a file: anything that does not split in
\* two is decrypted as legacy; what does split in two is taken for
\* ivHex:ciphertextHex, and createDecipheriv throws on an initialisation vector
\* that is not 32 hex digits (the files here are shorter than that).
decryptData_chars(chars, encryptionKey) ==
    IF Parts(chars) # 2
    THEN [threw |-> FALSE, text |-> _legacyDecrypt(chars, encryptionKey)]
    ELSE [threw |-> TRUE]

\* databases the earlier version saved
LegacyDatabases == {EmptyObject, [usuarios |-> <<>>]}

\* JSON.stringify(db, null, 4): {} and {\n    "usuarios": []\n}
Chars(db) ==
    IF db = EmptyObject THEN <<123, 125>>
    ELSE <<123, 10, 32, 32, 32, 32, 34, 117, 115, 117, 97, 114, 105, 111, 115, 34,
           58, 32, 91, 93, 10, 125>>

\* JSON.parse of such a text
ParseChars(chars) == CHOOSE db \in LegacyDatabases : Chars(db) = chars

\* the passphrases "A1", "k" and "clave"
Passphrases == {<<65, 49>>, <<107>>, <<99, 108, 97, 118, 101>>}

\* the store is constructed over a file the earlier version wrote with the
\* same passphrase; when loadDatabase throws there is no store
loadLegacy(db, encryptionKey) ==
    LET raw == legacy_encryptData(Chars(db), encryptionKey)
        out == decryptData_chars(raw, encryptionKey)
        loaded == IF out.threw THEN EmptyObject ELSE ParseChars(out.text)
        store == Constructed(encryptData(loaded))
    IN /\ ~txn.active
       /\ file' = <<"chars", raw>>
       /\ data' = store.data
       /\ uniqueKeyMap' = store.uniqueKeyMap
       /\ indexes' = store.indexes
       /\ primaryKeyMap' = store.primaryKeyMap
       /\ assigned' = [t \in TableNames |-> {}]
       /\ UNCHANGED <<backups, txn>>
       /\ Returned("constructor", IF out.threw THEN "load_error" ELSE "legacy", "", 0)

LoadLegacy == \E db \in LegacyDatabases, encryptionKey \in Passphrases : loadLegacy(db, encryptionKey)

\* a store opened over a legacy file, or over a file of its own, and then
\* inserted into, updated and deleted from
NextLegacy ==
    \/ LoadLegacy
    \/ ret.res # "load_error" /\ Insert(CoreInserts, Healthy)
    \/ ret.res # "load_error" /\ Update(CoreUpdates, Healthy)
    \/ ret.res # "load_error" /\ Delete(Healthy)

SpecLegacy == Init /\ [][NextLegacy]_vars

\* C20: decrypting and parsing what saveDatabase wrote gives an equal Database,
\* and a file written in the legacy XOR format with the same passphrase is
\* recognised as legacy by decryptData and decrypts to the original text.
C20_CodecRoundTrip ==
    [][/\ (ret'.op \in {"insert", "update", "delete"} /\ ret'.res = "ok")
            => JsonParse(decryptData(file')) = data'
       /\ \A db \in LegacyDatabases, encryptionKey \in Passphrases :
            loadLegacy(db, encryptionKey)
                => /\ Parts(file'[2]) # 2
                   /\ ret'.res = "legacy"
                   /\ _legacyDecrypt(file'[2], encryptionKey) = Chars(db)
                   /\ data' = db]_vars

\* ---------------------------------------------------------------- backup service
\* the setInterval callback of startBackupService: try { this.backup() }.  The
\* operations are synchronous, so the event loop runs the callback only between
\* two of them, never inside one.
backupTimer == backup

BackupTimer == backupTimer

NextTimer ==
    \/ Insert(CoreInserts, Healthy) \/ Update(CoreUpdates, Healthy) \/ Delete(Healthy)
    \/ Reset(Healthy)
    \/ BackupTimer

SpecTimer == Init /\ [][NextTimer]_vars

\* C21: however the backup timer callbacks interleave with the mutating
\* operations, every backup made is a copy of the whole content the last
\* finished save (or the initial file) left in the live file, never a partial one.
C21_BackupsAreWholeSaves ==
    [][\A b \in backups' \ backups :
          /\ b = file
          /\ CanDecrypt(b)]_vars

\* a backup was taken by the timer and a save has gone on after it
C21_Witness ==
    /\ ret.op \in {"insert", "update", "delete"}
    /\ ret.res = "ok"
    /\ backups # {}
    /\ file \notin backups

\* the primary key id belongs to no live document of table t
NoSuchKey(t, id) == \A doc \in Live(t) : Get(doc, primaryKeyOf(t)) # Num(id)

\* C22: update on a primary key no live document of the table has returns
\* null and delete on such a key returns false; the Database, the indexes, the
\* registry, the counters and the file stay as they were.
C22_AbsentKeyIsNoOp ==
    [][\A t \in TableNames, id \in Keys :
          NoSuchKey(t, id) =>
             /\ \A newData \in CoreUpdates, writeOk \in Faulty :
                   update(t, Num(id), newData, writeOk)
                      => /\ ret'.res = "null"
                         /\ UNCHANGED <<data, indexes, uniqueKeyMap, primaryKeyMap, file>>
             /\ \A writeOk \in Faulty :
                   delete(t, Num(id), writeOk)
                   => /\ ret'.res = "false"
                      /\ UNCHANGED <<data, indexes, uniqueKeyMap, primaryKeyMap, file>>]_vars

\* an update found no document with the key in a table that holds documents
C22_Witness ==
    /\ ret.op \in {"update", "delete"}
    /\ ret.res \in {"null", "false"}
    /\ ret.table \in DOMAIN data
    /\ Len(data[ret.table]) >= 1

\* a store the application inserts into and deletes from, and updates with
\* every kind of patch
NextUpdate ==
    Insert(CoreInserts, Healthy) \/ Update(UpdateInputs, Healthy) \/ Delete(Healthy)

SpecUpdate == Init /\ [][NextUpdate]_vars

UpdateRejections == {"validation_error", "primary_key_error", "unique_error"}

\* the patch would give the document a value of a unique field that another
\* live document of the table has
Collides(t, index, newData) ==
    LET originalDoc == data[t][index + 1]
        updatedDoc == Spread(originalDoc, newData)
    IN \E k \in uniqueOf(t) :
          /\ Get(updatedDoc, k) # Get(originalDoc, k)
          /\ Get(updatedDoc, k) \notin {Undef, Null}
          /\ \E j \in DOMAIN data[t] : j # index + 1 /\ Get(data[t][j], k) = Get(updatedDoc, k)

\* the patch is one the update must refuse
MustReject(t, index, newData) ==
    LET originalDoc == data[t][index + 1]
        pk == primaryKeyOf(t)
    IN \/ Get(newData, pk) # Undef /\ Get(newData, pk) # Get(originalDoc, pk)
       \/ ~_validateDataAgainstSchema(t, Spread(originalDoc, newData))
       \/ Collides(t, index, newData)

\* C23: an update whose patch changes the primary key, whose merged document
\* fails the schema, or whose changed unique value is held by another document
\* raises an error, and a rejected update leaves the table, the indexes, the
\* registry and the file as they were.
C23_RejectedUpdateChangesNothing ==
    [][/\ (ret'.op = "update" /\ ret'.res \in UpdateRejections)
            => UNCHANGED <<data, indexes, uniqueKeyMap, file>>
       /\ \A t \in DOMAIN data, id \in Keys, newData \in UpdateInputs :
            LET index == FindIndex(data[t], primaryKeyOf(t), Num(id))
            IN (index # -1 /\ MustReject(t, index, newData) /\ update(t, Num(id), newData, TRUE))
                  => ret'.res \in UpdateRejections]_vars

\* an update was refused for a collision in a table of two documents
C23_Witness ==
    /\ ret.op = "update"
    /\ ret.res = "unique_error"
    /\ Len(data[ret.table]) = 2

\* insert, update and delete with null and text values of the unique field,
\* and restarts of the program over the file it saved
NullInserts == CoreInserts \cup {[email |-> Null, fecha |-> DateObj]}

NullUpdates == CoreUpdates \cup {[email |-> Null]}

NextReload ==
    \/ Insert(NullInserts, Healthy) \/ Update(NullUpdates, Healthy) \/ Delete(Healthy)
    \/ Restart

SpecReload == Init /\ [][NextReload]_vars

\* the value is null or absent
Exempt(v) == v = Undef \/ v = Null

\* the registry holds no null and no absent value
RegistryHoldsValuesOnly ==
    \A t \in DOMAIN uniqueKeyMap : \A k \in DOMAIN uniqueKeyMap[t] :
        \A v \in uniqueKeyMap[t][k] : ~Exempt(v)

\* no insert and no update whose value for the unique field is null or absent
\* is rejected for uniqueness
ExemptNeverRejected ==
    /\ \A t \in TableNames, input \in NullInserts :
          (\A k \in uniqueOf(t) : Exempt(Get(input, k))) /\ insert(t, input, TRUE)
              => ret'.res # "unique_error"
    /\ \A t \in TableNames, id \in Keys, newData \in NullUpdates :
          (\A k \in uniqueOf(t) : k \in DOMAIN newData /\ Exempt(newData[k]))
              /\ update(t, Num(id), newData, TRUE)
              => ret'.res # "unique_error"

\* C24: null and absent values are exempt from the unique constraint: an insert
\* or update whose unique field is null or absent is never rejected for
\* uniqueness, and such values are never added to the registry.
C24_NullIsExempt ==
    [][ExemptNeverRejected /\ RegistryHoldsValuesOnly']_vars

\* the values the registry holds for field k of table t
Registered(t, k) ==
    IF t \in DOMAIN uniqueKeyMap /\ k \in DOMAIN uniqueKeyMap[t]
    THEN uniqueKeyMap[t][k] ELSE {}

\* the non-null values live documents of table t have for field k
Held(t, k) == {Get(doc, k) : doc \in Live(t)} \ {Undef, Null}

\* C25: after insert, update and delete operations outside transactions the
\* registry of each table holds, for every unique field, exactly the non-null
\* values live documents of the table have for that field.
C25_RegistryMirrorsDatabase ==
    \A t \in TableNames : \A k \in uniqueOf(t) : Registered(t, k) = Held(t, k)

\* inserts and deletes, alone or inside transactions whose function fails
NextRollback ==
    \/ Insert(CoreInserts, Healthy) \/ Delete(Healthy)
    \/ TransactionBegin \/ TransactionFail

SpecRollback == Init /\ [][NextRollback]_vars

\* the non-null values the documents of table t had for field k when the
\* running transaction started
HeldAtStart(t, k) ==
    IF t \in DOMAIN txn.data
    THEN {Get(txn.data[t][i], k) : i \in DOMAIN txn.data[t]} \ {Undef, Null}
    ELSE {}

\* the values of field k the transaction function has given to documents of t
InsertedByFunction(t, k) == Held(t, k) \ HeldAtStart(t, k)

\* C26: the rollback restores the documents only: after a transaction whose
\* function inserted a document with unique value v and then failed, the
\* registry and the indexes are as the function's operations left them, v is in
\* the registry although no live document holds it, and the next insert with
\* value v is rejected with a uniqueness failure.
C26_RollbackLeavesRegistry ==
    [][/\ transactionFail
            => /\ UNCHANGED <<indexes, uniqueKeyMap>>
               /\ \A t \in TableNames : \A k \in uniqueOf(t) :
                     \A v \in InsertedByFunction(t, k) :
                        v \in Registered(t, k)' /\ v \notin Held(t, k)'
       /\ (ret.op = "transaction" /\ ret.res = "error")
            => \A t \in TableNames, input \in CoreInserts :
                  (/\ _validateDataAgainstSchema(t, input)
                   /\ \E k \in uniqueOf(t) : Get(input, k) \in Registered(t, k) \ Held(t, k)
                   /\ insert(t, input, TRUE))
                     => ret'.res = "unique_error"]_vars

\* an insert was refused for a value that only a rolled-back document had
C26_Witness ==
    /\ ret.op = "insert"
    /\ ret.res = "unique_error"
    /\ Str("a") \in Registered("usuarios", "email") \ Held("usuarios", "email")

\* the values given to $limit and $skip: none, some, all and more than all of
\* the documents
Counts == 0..(MaxDocs + 1)

Least(a, b) == IF a < b THEN a ELSE b

\* the first n documents, or all when there are fewer
Prefix(docs, n) == SubSeq(docs, 1, Least(n, Len(docs)))

\* the documents after the first k, or none when there are fewer
Dropped(docs, k) == SubSeq(docs, Least(k, Len(docs)) + 1, Len(docs))

\* C27: a limit stage with value n >= 0 (0 included) makes the result the first
\* min(n, length) documents, and a skip stage with value k drops the first
\* min(k, length) documents; the other documents keep their order.
C27_LimitAndSkip ==
    \A t \in DOMAIN data : \A n \in Counts :
        /\ aggregate(t, <<("$limit" :> Num(n))>>) = Prefix(data[t], n)
        /\ aggregate(t, <<("$skip" :> Num(n))>>) = Dropped(data[t], n)

\* documents whose caller supplies the primary key: a negative number, 0 and a
\* positive number, all of the same date
GroupInserts == {[id |-> Num(k), fecha |-> Str(IsoText)] : k \in {-1, 0, 1, 2}}

NextGroup == Insert(GroupInserts, Healthy) \/ Delete(Healthy)

SpecGroup == Init /\ [][NextGroup]_vars

\* [{$group: {_id: '$fecha', low: {$min: '$id'}, high: {$max: '$id'}}}]
LowAndHigh ==
    <<("$group" :> [_id |-> Str("$fecha"),
                    low |-> ("$min" :> Str("$id")),
                    high |-> ("$max" :> Str("$id"))])>>

\* the ids of the documents of table t whose date is the given one
IdsOfDate(t, fecha) == {doc.id[2] : doc \in {d \in Live(t) : Get(d, "fecha") = fecha}}

Smallest(S) == CHOOSE m \in S : \A x \in S : m <= x

\* C28: in a group stage the minimum accumulator of a group is the smallest and
\* the maximum accumulator the largest value of the source field over the
\* documents of the group, for every integer value, 0 and negatives included.
C28_MinAndMax ==
    \A t \in DOMAIN data :
        LET groups == aggregate(t, LowAndHigh)
        IN \A i \in DOMAIN groups :
              /\ groups[i].low = Num(Smallest(IdsOfDate(t, groups[i]._id)))
              /\ groups[i].high = Num(Max(IdsOfDate(t, groups[i]._id)))

\* inserts and deletes with imports and restores in between
NextRealloc ==
    \/ Insert(CoreInserts, Healthy) \/ Delete(Healthy)
    \/ ImportFromJson(ImportSources \cup {UnreadableFile}, Healthy)
    \/ Restore

SpecRealloc == Init /\ [][NextRealloc]_vars

\* the keys insert assigned in table t that no live document has any more
Retired(t) == {k \in assigned[t] : \A doc \in Live(t) : Get(doc, primaryKeyOf(t)) # Num(k)}

\* the key the next insert without a primary key gets is greater than the
\* primary key of every live document of the table
NextKeyAboveLive(t) ==
    \A doc \in Live(t) :
        typeof(Get(doc, primaryKeyOf(t))) = "number"
            => getNextPrimaryKey(primaryKeyMap, data, t) > Get(doc, primaryKeyOf(t))[2]

\* C29: a key that was auto-assigned and whose document was deleted is never
\* auto-assigned again, also after importFromJson or restore; and after a
\* restore or an import the next auto-assigned key is greater than every
\* primary key of a live document.
C29_KeysNotReused ==
    [][/\ (ret'.op = "insert" /\ ret'.key > 0) => ret'.key \notin Retired(ret'.table)
       /\ (ret'.op \in {"restore", "importFromJson"} /\ ret'.res = "true")
            => \A t \in DOMAIN data' : NextKeyAboveLive(t)']_vars

\* restores whose safety backup may fail
RestoreFaulty ==
    \E backupFile \in RestoreSources, backupOk \in Faulty : restore(backupFile, backupOk)

\* inserts and deletes with backups and restores in between
NextRestore ==
    \/ Insert(CoreInserts, Healthy) \/ Delete(Healthy)
    \/ Backup \/ RestoreFaulty

SpecRestore == Init /\ [][NextRestore]_vars

\* C30: restore takes the safety backup before it overwrites the live file:
\* when the file is overwritten a backup holds the content it had, and when
\* the safety backup fails the file is not overwritten.
C30_SafetyBackupFirst ==
    [][\A backupFile \in RestoreSources, backupOk \in Faulty :
          restore(backupFile, backupOk)
             => /\ (backupFile # MissingFile /\ backupOk)
                      => (file' = backupFile /\ file \in backups')
                /\ ~backupOk => (file' = file /\ ret'.res = "false")]_vars

\* a restore replaced the file by a different one and the backups hold the old one
C30_Witness ==
    /\ ret.op = "restore"
    /\ ret.res = "true"
    /\ \E b \in backups : b # file

\* C31: after any sequence of inserts, with primary keys supplied by the
\* caller or assigned by insert in any mix, no table holds two live documents
\* with the same primary-key value.
C31_PrimaryKeysDistinct ==
    \A t \in DOMAIN data : \A i, j \in DOMAIN data[t] :
        (i # j /\ Get(data[t][i], primaryKeyOf(t)) # Undef)
            => Get(data[t][i], primaryKeyOf(t)) # Get(data[t][j], primaryKeyOf(t))

\* ---------------------------------------------------------------- index management
\* createIndex(tableName, field)
createIndex(t, field) ==
    /\ ~txn.active
    /\ UNCHANGED <<data, uniqueKeyMap, primaryKeyMap, file, backups, assigned, txn>>
    /\ IF t \notin DOMAIN data
       THEN /\ UNCHANGED indexes
            /\ Returned("createIndex", "false", t, 0)
       ELSE /\ indexes' = _createIndex(indexes, data, t, field)
            /\ Returned("createIndex", "true", t, 0)

\* dropIndex(tableName, field)
dropIndex(t, field) ==
    /\ ~txn.active
    /\ UNCHANGED <<data, uniqueKeyMap, primaryKeyMap, file, backups, assigned, txn>>
    /\ IF t \notin DOMAIN indexes \/ field \notin DOMAIN indexes[t]
       THEN /\ UNCHANGED indexes
            /\ Returned("dropIndex", "false", t, 0)
       ELSE /\ indexes' = Put(indexes, t, Del(indexes[t], field))
            /\ Returned("dropIndex", "true", t, 0)

\* the fields the application makes and drops indexes on: the date, which
\* repeats from document to document, and the unique email
IndexFields == {"fecha", "email"}

CreateIndex == \E t \in TableNames, field \in IndexFields : createIndex(t, field)

DropIndex == \E t \in TableNames, field \in IndexFields : dropIndex(t, field)

\* a store the application inserts into and updates, making and dropping
\* indexes in between
NextIndex ==
    \/ Insert(CoreInserts, Healthy) \/ Update(CoreUpdates, Healthy)
    \/ CreateIndex \/ DropIndex

SpecIndex == Init /\ [][NextIndex]_vars

\* the literals the application looks for
Literals == {Num(1), Num(2), Str("a"), Str("b"), Str(IsoText)}

\* C32: the index is only an optimisation: for every table, field f and
\* literal v, find(table, {f: v}) returns the documents the full scan returns,
\* whether f is indexed or not.
C32_IndexIsOptimisation ==
    \A t \in DOMAIN data : \A f \in {"id", "email", "fecha"} : \A v \in Literals :
        find(t, (f :> v)) = Filter(data[t], (f :> v))

\* C33: when restore reports failure, the live file and the Database in memory
\* are the same as before the call.
C33_FailedRestoreChangesNothing ==
    [][(ret'.op = "restore" /\ ret'.res = "false") => (file' = file /\ data' = data)]_vars

\* ---------------------------------------------------------------- frame of update and delete
\* the configured table and one the configuration does not name
FrameTables == TableNames \cup {"notas"}

\* documents whose key the caller supplies
KeyedInserts == {[id |-> Num(k), fecha |-> Str(IsoText)] : k \in {1, 2}}

FramePatches == {[email |-> Str("b")]}

\* the one document written to the table the configuration does not name
NoteInserts == {[id |-> Num(1)]}

InsertKeyed ==
    \/ \E t \in TableNames, input \in KeyedInserts : insert(t, input, TRUE)
    \/ \E t \in FrameTables \ TableNames, input \in NoteInserts : insert(t, input, TRUE)

UpdateAny ==
    \E t \in FrameTables, id \in Keys, newData \in FramePatches : update(t, Num(id), newData, TRUE)

DeleteAny == \E t \in FrameTables, id \in Keys : delete(t, Num(id), TRUE)

NextFrame == InsertKeyed \/ UpdateAny \/ DeleteAny

SpecFrame == Init /\ [][NextFrame]_vars

\* every table but t is as it was, and no table appeared or disappeared
OtherTablesKept(t) ==
    /\ DOMAIN data' = DOMAIN data
    /\ \A u \in DOMAIN data \ {t} : data'[u] = data[u]

\* C34: a successful update changes only the target document, which keeps its
\* position and its primary key; a successful delete removes exactly the target
\* document and keeps the order of the others; the other tables are unchanged.
C34_UpdateAndDeleteFrame ==
    [][\A t \in FrameTables, id \in Keys :
          LET at == FindIndex(IF t \in DOMAIN data THEN data[t] ELSE <<>>,
                              primaryKeyOf(t), Num(id)) + 1
          IN /\ \A newData \in FramePatches :
                   (update(t, Num(id), newData, TRUE) /\ ret'.res = "ok")
                      => /\ OtherTablesKept(t)
                         /\ Len(data'[t]) = Len(data[t])
                         /\ Get(data'[t][at], primaryKeyOf(t)) = Num(id)
                         /\ \A i \in DOMAIN data[t] \ {at} : data'[t][i] = data[t][i]
             /\ (delete(t, Num(id), TRUE) /\ ret'.res = "true")
                   => /\ OtherTablesKept(t)
                      /\ Len(data'[t]) = Len(data[t]) - 1
                      /\ \A i \in DOMAIN data'[t] :
                            data'[t][i] = data[t][IF i < at THEN i ELSE i + 1]]_vars

\* the first of two documents was deleted while the other table held documents
C34_Witness ==
    /\ ret.op = "delete"
    /\ ret.res = "true"
    /\ Len(data[ret.table]) = 1
    /\ data[ret.table][1].id = Num(2)
    /\ \E u \in DOMAIN data \ {ret.table} : Len(data[u]) = 2 /\ data[u][2] # data[u][1]

====
